---- MODULE Spec2Model ----
(***************************************************************************)
(* nfs_mounter_agent: the watchdog (health store + periodic scheduler) and *)
(* the HTTP health handlers.                                               *)
(*                                                                         *)
(* Strings the code takes apart (URL paths, mount points) are sequences of *)
(* one-character strings, so that HasPrefix / TrimPrefix are computed as   *)
(* the Go functions compute them.                                          *)
(***************************************************************************)
EXTENDS Integers, Sequences, FiniteSets, TLC

\* ------------------------------------------------------------------ bounds

\* longest configured mount-point list
MaxPoints == 2

\* most slashes a request puts between "/health/mount-points" and the rest
MaxSlashes == 3

\* ----------------------------------------------------------------- strings

Range(s) == {s[i] : i \in 1..Len(s)}

\* strings.HasPrefix(s, p)
HasPrefix(s, p) == Len(s) >= Len(p) /\ SubSeq(s, 1, Len(p)) = p

\* strings.TrimPrefix(s, p): s without ONE leading p, s itself when p is no prefix
TrimPrefix(s, p) == IF HasPrefix(s, p) THEN SubSeq(s, Len(p) + 1, Len(s)) ELSE s

\* k slashes
Slashes(k) == [i \in 1..k |-> "/"]

\* number of leading "/" of s
RECURSIVE LeadingSlashes(_)
LeadingSlashes(s) ==
    IF s # <<>> /\ Head(s) = "/" THEN 1 + LeadingSlashes(Tail(s)) ELSE 0

\* ------------------------------------------------------------ configuration

\* --health-path default
healthPath == <<"/", "h", "e", "a", "l", "t", "h">>

\* the sub-path as main passes it (with its trailing slash) ...
SubpathMain == <<"m", "o", "u", "n", "t", "-", "p", "o", "i", "n", "t", "s", "/">>

\* ... and as the handler tests pass it (without)
SubpathTest == <<"m", "o", "u", "n", "t", "-", "p", "o", "i", "n", "t", "s">>

Subpaths == {SubpathMain, SubpathTest}

\* absolute paths a deployment may configure with --mount-point
MountUniverse == { <<"/", "a">>, <<"/", "a", "/", "a">> }

\* every list of 1..MaxPoints mount points (the flag may repeat a path)
PointLists(lo) ==
    UNION {[1..n -> MountUniverse] : n \in lo..MaxPoints}

\* what a request carries after "/health/mount-points" and its slashes
Tails == { <<>>, <<"a">>, <<"a", "/", "a">>, <<"b">> }

\* request URL paths: the per-mount ones, and two that are not per-mount
UrlBase == healthPath \o <<"/">> \o SubpathTest

Requests ==
    {UrlBase \o Slashes(k) \o t : k \in 0..MaxSlashes, t \in Tails}
        \cup {healthPath, <<"/", "x", "/", "a">>}

\* ------------------------------------------------------------------- state

VARIABLES
    mountPoints,         \* Watchdog.mountPoints
    enableWriteTest,     \* Watchdog.enableWriteTest
    lastHealthy,         \* Watchdog.lastHealthy: a map, DOMAIN = its keys
    mountPointsSubpath,  \* HealthHandlers.mountPointsSubpath
    pc,                  \* where the Start goroutine is: "new" (not yet running),
                         \* "initial" (in the CheckAll before the ticker), "pass" (in
                         \* the CheckAll of the tick case), "select", "done" (returned)
    idx,                 \* CheckAll's position in mountPoints (1-based)
    cancelled,           \* ctx.Done() is closed
    tickerOn,            \* the ticker of Start exists and is not stopped
    tickC,               \* values buffered in ticker.C
    resp,                \* the response written by the request served in this step
    lastSet,             \* history: the last value setHealthy was given, per path
    checked,             \* history: mount points checked so far in this pass
    firstPassDone,       \* history: the pass before the ticker has completed
    passBeganCancelled,  \* history: ctx was already cancelled when the last pass began
    dropped,             \* history: the latest tick found ticker.C full and was lost
    passesSinceTick      \* history: tick-triggered passes begun since a tick fired

\* One check (CheckMountPoint) step by step, its metrics and its files
VARIABLES
    cpc,                 \* where CheckMountPoint is: "idle" (not in a check), "stat",
                         \* "table", "create", "remove" (that operation is in flight),
                         \* "metrics" (checkMounted returned), "lock" (setHealthy waits
                         \* for mu), "write" (setHealthy holds mu)
    cfs,                 \* what the check has found so far ("?": not looked at)
    cerr,                \* what checkMounted returned
    checksTotal,         \* nfsChecksTotal, per <<mountpoint, result>>
    mountHealthyGauge,   \* nfsMountHealthy, per mountpoint (-1: label never set)
    histExists,          \* nfsWriteTestDuration is not nil
    histObs,             \* observations in nfsWriteTestDuration, per mountpoint
    probeFiles,          \* probe files present in each mount point's directory
    mu,                  \* Watchdog.mu: the write holder, the number of read holders
    ops,                 \* history: file-system operations this check has made
    outcomes,            \* history: results of this pass's checks, aligned with checked
    errorsSeen,          \* history: checks that ended with an error, per mount point
    writeAttempts,       \* history: calls of writeTest, per mount point
    filesBefore,         \* history: probe files in the directory when the check began
    passesDone,          \* history: completed passes
    checkDoneCancelled   \* history: in this pass a check has completed after cancel

\* Calls of the store's three operations by goroutines of their own, step by step
VARIABLES
    setPc,      \* a setHealthy call: "idle" (none, or waiting for mu), "write" (holds mu)
    setArg,     \* its arguments <<mountPoint, healthy>>
    mainPc,     \* an IsHealthy call: "idle" (none, or waiting for mu), "loop" (holds mu)
    mainI,      \* its position in mountPoints
    mainRet,    \* <<what the last IsHealthy call returned>>, <<>> before it returns
    mainSnap,   \* history: the store when that call took mu
    mountPc,    \* an IsMountHealthy call: "idle", "read" (holds mu)
    mountArg,   \* its argument
    mountRet,   \* what the last IsMountHealthy call returned, <<>> before it returns
    mountSnap   \* history: the store when that call took mu

callers == <<setPc, setArg, mainPc, mainI, mainRet, mainSnap, mountPc, mountArg,
             mountRet, mountSnap>>

chk == <<cpc, cfs, cerr, ops>>
metrics == <<checksTotal, mountHealthyGauge, histExists, histObs>>
fhist == <<outcomes, errorsSeen, writeAttempts, filesBefore, passesDone, checkDoneCancelled>>
fine == <<chk, metrics, probeFiles, mu, fhist>>

vars == <<mountPoints, enableWriteTest, lastHealthy, mountPointsSubpath, pc, idx,
          cancelled, tickerOn, tickC, resp, lastSet, checked, firstPassDone,
          passBeganCancelled, dropped, passesSinceTick, fine, callers>>

config == <<mountPoints, enableWriteTest, mountPointsSubpath>>
sched == <<pc, idx, cancelled, tickerOn, tickC>>
hist == <<checked, firstPassDone, passBeganCancelled, dropped, passesSinceTick>>

NoResp == [handler |-> "none", path |-> <<>>, mp |-> <<>>, status |-> 0, body |-> ""]

\* ------------------------------------------------------------ health store

\* Go map read m[k]: the zero value when the key is absent
MapGet(m, k) == IF k \in DOMAIN m THEN m[k] ELSE FALSE

\* Go map write m[k] = v: adds the key when it is absent
MapSet(m, k, v) == [p \in (DOMAIN m) \cup {k} |-> IF p = k THEN v ELSE m[p]]

\* NewWatchdog without its initialising loop: the map starts empty
NewWatchdogNoInit(points) == [p \in {} |-> FALSE]

\* NewWatchdog: lastHealthy[mp] = false for every mp of points
NewWatchdog(points) == [p \in Range(points) |-> FALSE]

\* setHealthy that forgets a mount point found unhealthy instead of recording false
setHealthyDeleting(mountPoint, healthy) ==
    IF healthy THEN MapSet(lastHealthy, mountPoint, TRUE)
    ELSE [p \in (DOMAIN lastHealthy) \ {mountPoint} |-> lastHealthy[p]]

\* Watchdog.setHealthy: the store after the call
setHealthy(mountPoint, healthy) == MapSet(lastHealthy, mountPoint, healthy)

\* Watchdog.IsHealthy: the loop over mountPoints from position i, returning
\* false at the first record that is not true
RECURSIVE IsHealthyFrom(_)
IsHealthyFrom(i) ==
    IF i > Len(mountPoints) THEN TRUE
    ELSE IF ~MapGet(lastHealthy, mountPoints[i]) THEN FALSE
    ELSE IsHealthyFrom(i + 1)

\* IsHealthy returning true at the first healthy record (any instead of all)
IsHealthyAny ==
    \/ mountPoints = <<>>
    \/ \E i \in 1..Len(mountPoints) : MapGet(lastHealthy, mountPoints[i])

IsHealthy == IsHealthyFrom(1)

\* IsMountHealthy with the one-value map read: found is always true
IsMountHealthyAlwaysFound(mountPoint) == <<MapGet(lastHealthy, mountPoint), TRUE>>

\* Watchdog.IsMountHealthy: <<healthy, found>>
IsMountHealthy(mountPoint) ==
    <<MapGet(lastHealthy, mountPoint), mountPoint \in DOMAIN lastHealthy>>

\* ------------------------------------------------------------- mount check

\* what one check finds on the machine: the stat result, the mount table,
\* and how the write test's two file operations end
FsStates ==
    [stat: {"missing", "file", "dir"},
     table: {"unreadable", "nfs", "other"},
     write: {"ok", "create fails", "remove fails"}]

\* a check that has looked at nothing yet
NoFs == [stat |-> "?", table |-> "?", write |-> "?"]

\* Watchdog.isOnNFS: <<isNFS, err>>
isOnNFS(fs) ==
    IF fs.table = "unreadable" THEN <<FALSE, "open /proc/mounts">>
    ELSE IF fs.table = "nfs" THEN <<TRUE, "nil">>
    ELSE <<FALSE, "mount-point not found in /proc/mounts">>

\* Watchdog.writeTest: err
writeTest(fs) ==
    IF fs.write = "create fails" THEN "write file"
    ELSE IF fs.write = "remove fails" THEN "remove file"
    ELSE "nil"

\* Watchdog.checkMounted: "nil" or the error's message
checkMounted(fs) ==
    IF fs.stat = "missing" THEN "stat failed"
    ELSE IF fs.stat # "dir" THEN "is not a directory"
    ELSE IF isOnNFS(fs)[2] # "nil" THEN "checking /proc/mounts failed"
    ELSE IF ~isOnNFS(fs)[1] THEN "is not an NFS mount"
    ELSE IF enableWriteTest /\ writeTest(fs) # "nil" THEN "write test failed"
    ELSE "nil"

\* CheckMountPoint that on a failure marks every mount point unhealthy
CheckMountPointMarksAll(mountPoint, fs) ==
    /\ lastHealthy' = IF checkMounted(fs) = "nil"
                        THEN setHealthy(mountPoint, TRUE)
                        ELSE [p \in (DOMAIN lastHealthy) \cup {mountPoint} |-> FALSE]
    /\ lastSet' = [lastSet EXCEPT ![mountPoint] = (checkMounted(fs) = "nil")]

\* Watchdog.CheckMountPoint: the store write of one check (its closing step)
CheckMountPoint(mountPoint, fs) ==
    /\ lastHealthy' = setHealthy(mountPoint, checkMounted(fs) = "nil")
    /\ lastSet' = [lastSet EXCEPT ![mountPoint] = (checkMounted(fs) = "nil")]

\* ------------------------------------------------------------------- Init

InitWith(points) ==
    /\ mountPoints = points
    /\ enableWriteTest \in BOOLEAN
    /\ lastHealthy = NewWatchdog(points)
    /\ mountPointsSubpath \in Subpaths
    /\ pc = "new"
    /\ idx = 0
    /\ cancelled = FALSE
    /\ tickerOn = FALSE
    /\ tickC = 0
    /\ resp = NoResp
    /\ lastSet = [p \in MountUniverse |-> FALSE]
    /\ checked = <<>>
    /\ firstPassDone = FALSE
    /\ passBeganCancelled = FALSE
    /\ dropped = FALSE
    /\ passesSinceTick = 0
    /\ cpc = "idle"
    /\ cfs = NoFs
    /\ cerr = "nil"
    /\ checksTotal = [k \in MountUniverse \X {"ok", "error"} |-> 0]
    /\ mountHealthyGauge = [p \in MountUniverse |-> -1]
    /\ histExists = enableWriteTest
    /\ histObs = [p \in MountUniverse |-> 0]
    /\ probeFiles = [p \in MountUniverse |-> 0]
    /\ mu = [writer |-> FALSE, readers |-> 0]
    /\ ops = <<>>
    /\ outcomes = <<>>
    /\ errorsSeen = [p \in MountUniverse |-> 0]
    /\ writeAttempts = [p \in MountUniverse |-> 0]
    /\ filesBefore = 0
    /\ passesDone = 0
    /\ checkDoneCancelled = FALSE
    /\ setPc = "idle"
    /\ setArg = <<>>
    /\ mainPc = "idle"
    /\ mainI = 0
    /\ mainRet = <<>>
    /\ mainSnap = <<>>
    /\ mountPc = "idle"
    /\ mountArg = <<>>
    /\ mountRet = <<>>
    /\ mountSnap = <<>>

\* main refuses to start without a mount point
Init == \E points \in PointLists(1) : InitWith(points)

\* -------------------------------------------------------------- scheduler

\* capacity of ticker.C
TickerChanCap == 1

\* a ticker whose channel queues every tick
TickerSendQueued(c) == c + 1

\* the ticker's send on ticker.C: dropped when the buffer is full
TickerSend(c) == IF c < TickerChanCap THEN c + 1 ELSE c

\* CheckAll begins: position on the first mount point
BeginPass ==
    /\ idx' = 1
    /\ checked' = <<>>
    /\ passBeganCancelled' = cancelled

\* Start that goes to its ticker loop without the initial CheckAll
StartNoInitialPass ==
    /\ pc = "new"
    /\ pc' = "select"
    /\ tickerOn' = TRUE
    /\ resp' = NoResp
    /\ UNCHANGED callers
    /\ UNCHANGED <<config, lastHealthy, lastSet, idx, cancelled, tickC, hist>>
    /\ UNCHANGED fine

\* Start is scheduled: the initial CheckAll begins, whatever ctx says
StartInitial ==
    /\ pc = "new"
    /\ pc' = "initial"
    /\ BeginPass
    /\ resp' = NoResp
    /\ UNCHANGED callers
    /\ UNCHANGED <<config, lastHealthy, lastSet, cancelled, tickerOn, tickC,
                   firstPassDone, dropped, passesSinceTick>>
    /\ UNCHANGED fine

\* one iteration of CheckAll's loop; after the last one CheckAll returns to
\* Start, which after its initial pass creates the ticker, and waits in select
CheckStep ==
    /\ pc \in {"initial", "pass"}
    /\ idx \in 1..Len(mountPoints)
    /\ \E fs \in FsStates : CheckMountPoint(mountPoints[idx], fs)
    /\ checked' = Append(checked, mountPoints[idx])
    /\ IF idx = Len(mountPoints)
         THEN /\ pc' = "select"
              /\ idx' = 0
              /\ tickerOn' = (tickerOn \/ pc = "initial")
              /\ firstPassDone' = (firstPassDone \/ pc = "initial")
         ELSE /\ idx' = idx + 1
              /\ UNCHANGED <<pc, tickerOn, firstPassDone>>
    /\ resp' = NoResp
    /\ UNCHANGED callers
    /\ UNCHANGED <<config, cancelled, tickC, passBeganCancelled, dropped,
                   passesSinceTick>>
    /\ UNCHANGED fine

\* the interval elapses: the ticker sends on ticker.C
Tick ==
    /\ tickerOn
    /\ tickC' = TickerSend(tickC)
    /\ dropped' = (tickC >= TickerChanCap)
    /\ passesSinceTick' = 0
    /\ resp' = NoResp
    /\ UNCHANGED callers
    /\ UNCHANGED <<config, lastHealthy, lastSet, pc, idx, cancelled, tickerOn,
                   checked, firstPassDone, passBeganCancelled>>
    /\ UNCHANGED fine

\* select takes case <-ticker.C (it may, whenever a tick is buffered)
SelectTick ==
    /\ pc = "select"
    /\ tickC > 0
    /\ tickC' = tickC - 1
    /\ pc' = "pass"
    /\ BeginPass
    /\ passesSinceTick' = passesSinceTick + 1
    /\ resp' = NoResp
    /\ UNCHANGED callers
    /\ UNCHANGED <<config, lastHealthy, lastSet, cancelled, tickerOn, firstPassDone,
                   dropped>>
    /\ UNCHANGED fine

\* the ctx.Done() case leaving only the select (a bare break), not Start
SelectDoneBreak ==
    /\ pc = "select"
    /\ cancelled
    /\ resp' = NoResp
    /\ UNCHANGED callers
    /\ UNCHANGED <<config, lastHealthy, lastSet, sched, hist>>
    /\ UNCHANGED fine

\* select takes case <-ctx.Done(): Start returns, the deferred ticker.Stop runs
SelectDone ==
    /\ pc = "select"
    /\ cancelled
    /\ pc' = "done"
    /\ tickerOn' = FALSE
    /\ resp' = NoResp
    /\ UNCHANGED callers
    /\ UNCHANGED <<config, lastHealthy, lastSet, idx, cancelled, tickC, hist>>
    /\ UNCHANGED fine

\* cancel() is called on the context given to Start
Cancel ==
    /\ ~cancelled
    /\ cancelled' = TRUE
    /\ resp' = NoResp
    /\ UNCHANGED callers
    /\ UNCHANGED <<config, lastHealthy, lastSet, pc, idx, tickerOn, tickC, hist>>
    /\ UNCHANGED fine

\* ------------------------------------------------- one check, step by step
\* CheckStep above is one whole check as the store sees it. The actions below
\* take the same check apart: every file-system operation, the two metric
\* updates and the locked store write are steps of their own, so that other
\* goroutines (the ticker, cancel) run between them.

MaxPasses == 2

\* the mount point CheckAll's loop is at
Current == mountPoints[idx]

Bump(f, k) == [f EXCEPT ![k] = @ + 1]

\* CheckMountPoint that takes mu for the whole check
CheckBeginLocked ==
    /\ cpc = "idle"
    /\ pc \in {"initial", "pass"}
    /\ idx \in 1..Len(mountPoints)
    /\ passesDone < MaxPasses
    /\ ~mu.writer
    /\ mu.readers = 0
    /\ mu' = [mu EXCEPT !.writer = TRUE]
    /\ cpc' = "stat"
    /\ cfs' = NoFs
    /\ cerr' = "nil"
    /\ ops' = <<>>
    /\ filesBefore' = probeFiles[Current]
    /\ resp' = NoResp
    /\ UNCHANGED callers
    /\ UNCHANGED <<config, lastHealthy, lastSet, sched, hist>>
    /\ UNCHANGED <<metrics, probeFiles, outcomes, errorsSeen, writeAttempts,
                   passesDone, checkDoneCancelled>>

\* CheckAll calls CheckMountPoint, which calls checkMounted
CheckBegin ==
    /\ cpc = "idle"
    /\ pc \in {"initial", "pass"}
    /\ idx \in 1..Len(mountPoints)
    /\ passesDone < MaxPasses
    /\ cpc' = "stat"
    /\ cfs' = NoFs
    /\ cerr' = "nil"
    /\ ops' = <<>>
    /\ filesBefore' = probeFiles[Current]
    /\ resp' = NoResp
    /\ UNCHANGED callers
    /\ UNCHANGED <<config, lastHealthy, lastSet, sched, hist>>
    /\ UNCHANGED <<metrics, probeFiles, mu, outcomes, errorsSeen, writeAttempts,
                   passesDone, checkDoneCancelled>>

\* checkMounted returns err to CheckMountPoint
Return(fs) ==
    /\ cfs' = fs
    /\ cerr' = checkMounted(fs)
    /\ cpc' = "metrics"
    /\ errorsSeen' = IF checkMounted(fs) = "nil" THEN errorsSeen
                     ELSE Bump(errorsSeen, Current)

\* checkMounted that goes on to the mount table whatever os.Stat said
StatStepNoShortCircuit ==
    /\ cpc = "stat"
    /\ \E st \in {"missing", "file", "dir"} :
          /\ cfs' = [cfs EXCEPT !.stat = st]
          /\ cpc' = "table"
    /\ ops' = Append(ops, "stat")
    /\ resp' = NoResp
    /\ UNCHANGED callers
    /\ UNCHANGED <<config, lastHealthy, lastSet, sched, hist>>
    /\ UNCHANGED <<cerr, errorsSeen, metrics, probeFiles, mu, outcomes, writeAttempts,
                   filesBefore, passesDone, checkDoneCancelled>>

\* checkMounted: os.Stat and info.IsDir
StatStep ==
    /\ cpc = "stat"
    /\ \E st \in {"missing", "file", "dir"} :
          LET fs == [cfs EXCEPT !.stat = st] IN
          IF st = "dir"
            THEN /\ cfs' = fs
                 /\ cpc' = "table"
                 /\ UNCHANGED <<cerr, errorsSeen>>
            ELSE Return(fs)
    /\ ops' = Append(ops, "stat")
    /\ resp' = NoResp
    /\ UNCHANGED callers
    /\ UNCHANGED <<config, lastHealthy, lastSet, sched, hist>>
    /\ UNCHANGED <<metrics, probeFiles, mu, outcomes, writeAttempts, filesBefore,
                   passesDone, checkDoneCancelled>>

\* checkMounted: isOnNFS reads /proc/mounts; with the write test enabled
\* writeTest is entered and its timer started
TableStep ==
    /\ cpc = "table"
    /\ \E tb \in {"unreadable", "nfs", "other"} :
          LET fs == [cfs EXCEPT !.table = tb] IN
          IF isOnNFS(fs)[2] = "nil" /\ isOnNFS(fs)[1] /\ enableWriteTest
            THEN /\ cfs' = fs
                 /\ cpc' = "create"
                 /\ writeAttempts' = Bump(writeAttempts, Current)
                 /\ UNCHANGED <<cerr, errorsSeen>>
            ELSE /\ Return(fs)
                 /\ UNCHANGED writeAttempts
    /\ ops' = Append(ops, "table")
    /\ resp' = NoResp
    /\ UNCHANGED callers
    /\ UNCHANGED <<config, lastHealthy, lastSet, sched, hist>>
    /\ UNCHANGED <<metrics, probeFiles, mu, outcomes, filesBefore, passesDone,
                   checkDoneCancelled>>

\* writeTest whose timer is observed only on the way out of a finished test
WriteFileStepNoObserve ==
    /\ cpc = "create"
    /\ \E ok \in BOOLEAN :
          IF ok
            THEN /\ probeFiles' = Bump(probeFiles, Current)
                 /\ cpc' = "remove"
                 /\ UNCHANGED <<cfs, cerr, errorsSeen>>
            ELSE /\ Return([cfs EXCEPT !.write = "create fails"])
                 /\ UNCHANGED probeFiles
    /\ ops' = Append(ops, "create")
    /\ resp' = NoResp
    /\ UNCHANGED callers
    /\ UNCHANGED <<config, lastHealthy, lastSet, sched, hist>>
    /\ UNCHANGED <<metrics, mu, outcomes, writeAttempts, filesBefore, passesDone,
                   checkDoneCancelled>>

\* writeTest: os.WriteFile of the probe file; when it fails writeTest returns
\* and the deferred timer.ObserveDuration runs
WriteFileStep ==
    /\ cpc = "create"
    /\ \E ok \in BOOLEAN :
          IF ok
            THEN /\ probeFiles' = Bump(probeFiles, Current)
                 /\ cpc' = "remove"
                 /\ UNCHANGED <<cfs, cerr, errorsSeen, histObs>>
            ELSE /\ Return([cfs EXCEPT !.write = "create fails"])
                 /\ histObs' = Bump(histObs, Current)
                 /\ UNCHANGED probeFiles
    /\ ops' = Append(ops, "create")
    /\ resp' = NoResp
    /\ UNCHANGED callers
    /\ UNCHANGED <<config, lastHealthy, lastSet, sched, hist>>
    /\ UNCHANGED <<checksTotal, mountHealthyGauge, histExists, mu, outcomes,
                   writeAttempts, filesBefore, passesDone, checkDoneCancelled>>

\* writeTest that reports the probe file removed without removing it
RemoveStepKeepsFile ==
    /\ cpc = "remove"
    /\ \E ok \in BOOLEAN :
          Return([cfs EXCEPT !.write = IF ok THEN "ok" ELSE "remove fails"])
    /\ histObs' = Bump(histObs, Current)
    /\ ops' = Append(ops, "remove")
    /\ resp' = NoResp
    /\ UNCHANGED callers
    /\ UNCHANGED <<config, lastHealthy, lastSet, sched, hist>>
    /\ UNCHANGED <<checksTotal, mountHealthyGauge, histExists, probeFiles, mu,
                   outcomes, writeAttempts, filesBefore, passesDone,
                   checkDoneCancelled>>

\* writeTest: os.Remove of the probe file, then writeTest returns and the
\* deferred timer.ObserveDuration runs
RemoveStep ==
    /\ cpc = "remove"
    /\ \E ok \in BOOLEAN :
          IF ok
            THEN /\ probeFiles' = [probeFiles EXCEPT ![Current] = @ - 1]
                 /\ Return([cfs EXCEPT !.write = "ok"])
            ELSE /\ Return([cfs EXCEPT !.write = "remove fails"])
                 /\ UNCHANGED probeFiles
    /\ histObs' = Bump(histObs, Current)
    /\ ops' = Append(ops, "remove")
    /\ resp' = NoResp
    /\ UNCHANGED callers
    /\ UNCHANGED <<config, lastHealthy, lastSet, sched, hist>>
    /\ UNCHANGED <<checksTotal, mountHealthyGauge, histExists, mu, outcomes,
                   writeAttempts, filesBefore, passesDone, checkDoneCancelled>>

\* CheckMountPoint whose error branch leaves the gauge as it was
CountStepNoGaugeOnError ==
    /\ cpc = "metrics"
    /\ IF cerr # "nil"
         THEN /\ checksTotal' = Bump(checksTotal, <<Current, "error">>)
              /\ UNCHANGED mountHealthyGauge
         ELSE /\ checksTotal' = Bump(checksTotal, <<Current, "ok">>)
              /\ mountHealthyGauge' = [mountHealthyGauge EXCEPT ![Current] = 1]
    /\ cpc' = "lock"
    /\ resp' = NoResp
    /\ UNCHANGED callers
    /\ UNCHANGED <<config, lastHealthy, lastSet, sched, hist>>
    /\ UNCHANGED <<cfs, cerr, ops, histExists, histObs, probeFiles, mu, fhist>>

\* CheckMountPoint: the counter and the gauge of the branch err selects
CountStep ==
    /\ cpc = "metrics"
    /\ IF cerr # "nil"
         THEN /\ checksTotal' = Bump(checksTotal, <<Current, "error">>)
              /\ mountHealthyGauge' = [mountHealthyGauge EXCEPT ![Current] = 0]
         ELSE /\ checksTotal' = Bump(checksTotal, <<Current, "ok">>)
              /\ mountHealthyGauge' = [mountHealthyGauge EXCEPT ![Current] = 1]
    /\ cpc' = "lock"
    /\ resp' = NoResp
    /\ UNCHANGED callers
    /\ UNCHANGED <<config, lastHealthy, lastSet, sched, hist>>
    /\ UNCHANGED <<cfs, cerr, ops, histExists, histObs, probeFiles, mu, fhist>>

\* setHealthy: m.mu.Lock(), which waits until nobody holds mu
LockStep ==
    /\ cpc = "lock"
    /\ ~mu.writer
    /\ mu.readers = 0
    /\ mu' = [mu EXCEPT !.writer = TRUE]
    /\ cpc' = "write"
    /\ resp' = NoResp
    /\ UNCHANGED callers
    /\ UNCHANGED <<config, lastHealthy, lastSet, sched, hist>>
    /\ UNCHANGED <<cfs, cerr, ops, metrics, probeFiles, fhist>>

\* the end of a check: its locals are gone, CheckAll goes to its next mount
\* point, or returns to Start, which after its initial pass creates the
\* ticker, and waits in select
EndCheck ==
    /\ cpc' = "idle"
    /\ cfs' = NoFs
    /\ cerr' = "nil"
    /\ ops' = <<>>
    /\ filesBefore' = 0
    /\ checked' = Append(checked, Current)
    /\ outcomes' = IF idx = 1 THEN <<cerr = "nil">> ELSE Append(outcomes, cerr = "nil")
    /\ IF idx = Len(mountPoints)
         THEN /\ pc' = "select"
              /\ idx' = 0
              /\ tickerOn' = (tickerOn \/ pc = "initial")
              /\ firstPassDone' = (firstPassDone \/ pc = "initial")
              /\ passesDone' = passesDone + 1
              /\ checkDoneCancelled' = FALSE
         ELSE /\ idx' = idx + 1
              /\ checkDoneCancelled' = (cancelled /\ ~passBeganCancelled)
              /\ UNCHANGED <<pc, tickerOn, firstPassDone, passesDone>>

\* CheckAll that gives up its pass at the first mount point found unhealthy
SetStepStopOnError ==
    /\ cpc = "write"
    /\ lastHealthy' = setHealthy(Current, cerr = "nil")
    /\ lastSet' = [lastSet EXCEPT ![Current] = (cerr = "nil")]
    /\ mu' = [mu EXCEPT !.writer = FALSE]
    /\ cpc' = "idle"
    /\ cfs' = NoFs
    /\ cerr' = "nil"
    /\ ops' = <<>>
    /\ filesBefore' = 0
    /\ checked' = Append(checked, Current)
    /\ outcomes' = IF idx = 1 THEN <<cerr = "nil">> ELSE Append(outcomes, cerr = "nil")
    /\ IF idx = Len(mountPoints) \/ cerr # "nil"
         THEN /\ pc' = "select"
              /\ idx' = 0
              /\ tickerOn' = (tickerOn \/ pc = "initial")
              /\ firstPassDone' = (firstPassDone \/ pc = "initial")
              /\ passesDone' = passesDone + 1
              /\ checkDoneCancelled' = FALSE
         ELSE /\ idx' = idx + 1
              /\ checkDoneCancelled' = (cancelled /\ ~passBeganCancelled)
              /\ UNCHANGED <<pc, tickerOn, firstPassDone, passesDone>>
    /\ resp' = NoResp
    /\ UNCHANGED callers
    /\ UNCHANGED <<config, cancelled, tickC, passBeganCancelled, dropped,
                   passesSinceTick>>
    /\ UNCHANGED <<metrics, probeFiles, errorsSeen, writeAttempts>>

\* setHealthy: the map assignment and the deferred m.mu.Unlock()
SetStep ==
    /\ cpc = "write"
    /\ lastHealthy' = setHealthy(Current, cerr = "nil")
    /\ lastSet' = [lastSet EXCEPT ![Current] = (cerr = "nil")]
    /\ mu' = [mu EXCEPT !.writer = FALSE]
    /\ EndCheck
    /\ resp' = NoResp
    /\ UNCHANGED callers
    /\ UNCHANGED <<config, cancelled, tickC, passBeganCancelled, dropped,
                   passesSinceTick>>
    /\ UNCHANGED <<metrics, probeFiles, errorsSeen, writeAttempts>>

\* ------------------------------------------- the store's operations, locked
\* The three operations of the store called by goroutines of their own, one
\* call of each at a time, every lock operation and every map access a step.
\* mu is taken by whoever finds it free; that a waiting Lock holds back new
\* RLocks only removes interleavings.

\* a path no list configures
Unconfigured == <<"/", "b">>

\* setHealthy whose Lock does not wait for the readers
SetLockIgnoringReaders ==
    /\ setPc = "idle"
    /\ ~mu.writer
    /\ \E mp \in Range(mountPoints), healthy \in BOOLEAN : setArg' = <<mp, healthy>>
    /\ mu' = [mu EXCEPT !.writer = TRUE]
    /\ setPc' = "write"
    /\ resp' = NoResp
    /\ UNCHANGED <<config, lastHealthy, lastSet, sched, hist, fhist, chk, metrics,
                   probeFiles>>
    /\ UNCHANGED <<mainPc, mainI, mainRet, mainSnap, mountPc, mountArg, mountRet,
                   mountSnap>>

\* setHealthy is called on a configured mount point: m.mu.Lock()
SetLock ==
    /\ setPc = "idle"
    /\ ~mu.writer
    /\ mu.readers = 0
    /\ \E mp \in Range(mountPoints), healthy \in BOOLEAN : setArg' = <<mp, healthy>>
    /\ mu' = [mu EXCEPT !.writer = TRUE]
    /\ setPc' = "write"
    /\ resp' = NoResp
    /\ UNCHANGED <<config, lastHealthy, lastSet, sched, hist, fhist, chk, metrics,
                   probeFiles>>
    /\ UNCHANGED <<mainPc, mainI, mainRet, mainSnap, mountPc, mountArg, mountRet,
                   mountSnap>>

\* setHealthy: the map assignment and the deferred m.mu.Unlock()
SetWrite ==
    /\ setPc = "write"
    /\ lastHealthy' = setHealthy(setArg[1], setArg[2])
    /\ lastSet' = [lastSet EXCEPT ![setArg[1]] = setArg[2]]
    /\ mu' = [mu EXCEPT !.writer = FALSE]
    /\ setPc' = "idle"
    /\ resp' = NoResp
    /\ UNCHANGED <<config, sched, hist, fhist, chk, metrics, probeFiles>>
    /\ UNCHANGED <<setArg, mainPc, mainI, mainRet, mainSnap, mountPc, mountArg,
                   mountRet, mountSnap>>

\* IsHealthy is called: m.mu.RLock()
MainRLock ==
    /\ mainPc = "idle"
    /\ ~mu.writer
    /\ mu' = [mu EXCEPT !.readers = @ + 1]
    /\ mainPc' = "loop"
    /\ mainI' = 1
    /\ mainRet' = <<>>
    /\ mainSnap' = lastHealthy
    /\ resp' = NoResp
    /\ UNCHANGED <<config, lastHealthy, lastSet, sched, hist, fhist, chk, metrics,
                   probeFiles>>
    /\ UNCHANGED <<setPc, setArg, mountPc, mountArg, mountRet, mountSnap>>

\* IsHealthy: one iteration of its loop, or the return after the last one;
\* on return the deferred m.mu.RUnlock() runs
MainLoop ==
    /\ mainPc = "loop"
    /\ IF mainI > Len(mountPoints) \/ ~MapGet(lastHealthy, mountPoints[mainI])
         THEN /\ mainRet' = <<mainI > Len(mountPoints)>>
              /\ mu' = [mu EXCEPT !.readers = @ - 1]
              /\ mainPc' = "idle"
              /\ mainI' = 0
         ELSE /\ mainI' = mainI + 1
              /\ UNCHANGED <<mainRet, mu, mainPc>>
    /\ resp' = NoResp
    /\ UNCHANGED <<config, lastHealthy, lastSet, sched, hist, fhist, chk, metrics,
                   probeFiles>>
    /\ UNCHANGED <<setPc, setArg, mainSnap, mountPc, mountArg, mountRet, mountSnap>>

\* IsMountHealthy is called: m.mu.RLock()
MountRLock ==
    /\ mountPc = "idle"
    /\ ~mu.writer
    /\ \E mp \in MountUniverse \cup {Unconfigured} : mountArg' = mp
    /\ mu' = [mu EXCEPT !.readers = @ + 1]
    /\ mountPc' = "read"
    /\ mountRet' = <<>>
    /\ mountSnap' = lastHealthy
    /\ resp' = NoResp
    /\ UNCHANGED <<config, lastHealthy, lastSet, sched, hist, fhist, chk, metrics,
                   probeFiles>>
    /\ UNCHANGED <<setPc, setArg, mainPc, mainI, mainRet, mainSnap>>

\* IsMountHealthy: the two-value map read, the return, the deferred RUnlock
MountRead ==
    /\ mountPc = "read"
    /\ mountRet' = IsMountHealthy(mountArg)
    /\ mu' = [mu EXCEPT !.readers = @ - 1]
    /\ mountPc' = "idle"
    /\ resp' = NoResp
    /\ UNCHANGED <<config, lastHealthy, lastSet, sched, hist, fhist, chk, metrics,
                   probeFiles>>
    /\ UNCHANGED <<setPc, setArg, mainPc, mainI, mainRet, mainSnap, mountArg,
                   mountSnap>>

\* ---------------------------------------------------------- HTTP handlers

Response(handler, path, mp, status, body) ==
    [handler |-> handler, path |-> path, mp |-> mp, status |-> status, body |-> body]

\* HealthHandlers.HandleMain
MainResponse(path) ==
    IF IsHealthy
      THEN Response("main", path, <<>>, 200, "ok\n")
      ELSE Response("main", path, <<>>, 503, "unhealthy\n")

HandleMain ==
    /\ resp' = MainResponse(healthPath)
    /\ UNCHANGED callers
    /\ UNCHANGED <<config, lastHealthy, lastSet, sched, hist>>
    /\ UNCHANGED fine

\* the mount point HandleMountPoints asks the watchdog about
DecodeMountPoint(raw) == <<"/">> \o TrimPrefix(raw, <<"/">>)

\* HandleMountPoints answering with the aggregate instead of the mount's record
MountResponseAggregate(path) ==
    LET prefix == healthPath \o <<"/">> \o mountPointsSubpath
        raw == TrimPrefix(path, prefix)
        mp == DecodeMountPoint(raw)
    IN  IF ~HasPrefix(path, prefix)
          THEN Response("mount", path, <<>>, 404, "404 page not found\n")
        ELSE IF raw = <<>>
          THEN Response("mount", path, <<>>, 400, "mount point path required\n")
        ELSE IF ~IsMountHealthy(mp)[2]
          THEN Response("mount", path, mp, 404, "404 page not found\n")
        ELSE IF IsHealthy
          THEN Response("mount", path, mp, 200, "ok\n")
          ELSE Response("mount", path, mp, 503, "unhealthy\n")

\* HandleMountPoints without its empty-suffix check
MountResponseNoEmptyCheck(path) ==
    LET prefix == healthPath \o <<"/">> \o mountPointsSubpath
        raw == TrimPrefix(path, prefix)
        mp == DecodeMountPoint(raw)
    IN  IF ~HasPrefix(path, prefix)
          THEN Response("mount", path, <<>>, 404, "404 page not found\n")
        ELSE IF ~IsMountHealthy(mp)[2]
          THEN Response("mount", path, mp, 404, "404 page not found\n")
        ELSE IF IsMountHealthy(mp)[1]
          THEN Response("mount", path, mp, 200, "ok\n")
          ELSE Response("mount", path, mp, 503, "unhealthy\n")

\* HealthHandlers.HandleMountPoints
MountResponse(path) ==
    LET prefix == healthPath \o <<"/">> \o mountPointsSubpath
        raw == TrimPrefix(path, prefix)
        mp == DecodeMountPoint(raw)
    IN  IF ~HasPrefix(path, prefix)
          THEN Response("mount", path, <<>>, 404, "404 page not found\n")
        ELSE IF raw = <<>>
          THEN Response("mount", path, <<>>, 400, "mount point path required\n")
        ELSE IF ~IsMountHealthy(mp)[2]
          THEN Response("mount", path, mp, 404, "404 page not found\n")
        ELSE IF IsMountHealthy(mp)[1]
          THEN Response("mount", path, mp, 200, "ok\n")
          ELSE Response("mount", path, mp, 503, "unhealthy\n")

HandleMountPoints ==
    /\ \E path \in Requests : resp' = MountResponse(path)
    /\ UNCHANGED callers
    /\ UNCHANGED <<config, lastHealthy, lastSet, sched, hist>>
    /\ UNCHANGED fine

\* ------------------------------------------------------- the whole program

Next ==
    \/ StartInitial
    \/ CheckStep
    \/ Tick
    \/ SelectTick
    \/ SelectDone
    \/ Cancel
    \/ HandleMain
    \/ HandleMountPoints

Spec == Init /\ [][Next]_vars

\* ------------------------------------------- the scheduler alone, scheduled

NextSched ==
    \/ StartInitial
    \/ CheckStep
    \/ Tick
    \/ SelectTick
    \/ SelectDone
    \/ Cancel

\* The goroutine of Start is scheduled and every mount check returns (WF on
\* StartInitial, CheckStep); the interval keeps elapsing while the ticker runs
\* (WF on Tick); a select with a ready case takes one (WF on SelectTick), and,
\* choosing among its ready cases at random, it does not pass over the
\* ctx.Done() case every time that case is ready (SF on SelectDone).
\* cancel() may never be called: Cancel has no fairness.
SpecFair ==
    /\ Init
    /\ [][NextSched]_vars
    /\ WF_vars(StartInitial)
    /\ WF_vars(CheckStep)
    /\ WF_vars(Tick)
    /\ WF_vars(SelectTick)
    /\ SF_vars(SelectDone)

\* ------------------------------------------------ the store, called directly

\* a watchdog built on any list, the empty one included, none of it started
InitStore == \E points \in PointLists(0) : InitWith(points)

\* setHealthy called on a configured mount point, as the package's tests do
SetHealthyCall ==
    /\ \E mp \in Range(mountPoints), healthy \in BOOLEAN :
          /\ lastHealthy' = setHealthy(mp, healthy)
          /\ lastSet' = [lastSet EXCEPT ![mp] = healthy]
    /\ resp' = NoResp
    /\ UNCHANGED callers
    /\ UNCHANGED <<config, sched, hist>>
    /\ UNCHANGED fine

\* the --mount-point lists the step-by-step checks run on: one mount point,
\* two mount points, and one mount point given twice (Set appends every value)
CheckLists ==
    {<< <<"/", "a">> >>,
     << <<"/", "a">>, <<"/", "a", "/", "a">> >>,
     << <<"/", "a">>, <<"/", "a">> >>}

\* the agent as main builds it, its checks taken step by step
InitCheck ==
    /\ \E points \in CheckLists : InitWith(points)
    /\ mountPointsSubpath = SubpathMain

NextCheck ==
    \/ StartInitial
    \/ CheckBegin
    \/ StatStep
    \/ TableStep
    \/ WriteFileStep
    \/ RemoveStep
    \/ CountStep
    \/ LockStep
    \/ SetStep
    \/ Tick
    \/ SelectTick
    \/ SelectDone
    \/ Cancel

SpecCheck == InitCheck /\ [][NextCheck]_vars

\* a watchdog built on any list, its store called from three goroutines
InitLock ==
    /\ \E points \in PointLists(0) : InitWith(points)
    /\ mountPointsSubpath = SubpathMain

NextLock ==
    \/ SetLock
    \/ SetWrite
    \/ MainRLock
    \/ MainLoop
    \/ MountRLock
    \/ MountRead

SpecLock == InitLock /\ [][NextLock]_vars

NextStore ==
    \/ SetHealthyCall
    \/ HandleMain
    \/ HandleMountPoints

SpecStore == InitStore /\ [][NextStore]_vars

\* ------------------------------------------------------------------ claims

Configured == Range(mountPoints)

OkResp(r) == r.status = 200 /\ r.body = "ok\n"
UnhealthyResp(r) == r.status = 503 /\ r.body = "unhealthy\n"

\* C1: right after NewWatchdog, before Start has run any check, every
\* configured mount point is found and unhealthy (IsMountHealthy = (false,
\* true)), IsHealthy is false, and both endpoints answer 503.
C1_InitialStateUnhealthy ==
    pc = "new" =>
        /\ \A i \in 1..Len(mountPoints) :
              IsMountHealthy(mountPoints[i]) = <<FALSE, TRUE>>
        /\ ~IsHealthy
        /\ resp.handler = "main" => resp.status = 503
        /\ (resp.handler = "mount" /\ resp.mp \in Configured) => resp.status = 503

\* C1 witness: a per-mount request on a two-point watchdog that has not
\* started was answered 503.
C1_Witness ==
    /\ pc = "new"
    /\ Cardinality(Configured) = 2
    /\ resp.handler = "mount"
    /\ resp.mp \in Configured
    /\ resp.status = 503

\* C2: after any setHealthy calls on configured mount points, IsHealthy is
\* true exactly when the last value set for every configured mount point is
\* true (never set counts as false); with no mount point it is true.
C2_AggregateIffAllLastSetTrue ==
    /\ IsHealthy <=> \A mp \in Configured : lastSet[mp]
    /\ mountPoints = <<>> => IsHealthy
    /\ resp.handler = "main" => (resp.status = 200 <=> \A mp \in Configured : lastSet[mp])

\* C2 witness: two mount points, one last set true and one last set false,
\* and the aggregate endpoint answered 503.
C2_Witness ==
    /\ Cardinality(Configured) = 2
    /\ \E a, b \in Configured : lastSet[a] /\ ~lastSet[b]
    /\ resp.handler = "main"
    /\ resp.status = 503

\* C3: each endpoint answers from the store as it is at the request:
\* HandleMain 200 "ok\n" exactly when every configured record is true, else
\* 503 "unhealthy\n"; HandleMountPoints for a configured mount point 200
\* "ok\n" exactly when that mount's own record is true, else 503
\* "unhealthy\n", whatever the other records are.
C3_EndpointsMirrorStore ==
    /\ resp.handler = "main" =>
          IF \A mp \in Configured : MapGet(lastHealthy, mp)
            THEN OkResp(resp) ELSE UnhealthyResp(resp)
    /\ (resp.handler = "mount" /\ resp.mp \in Configured) =>
          IF MapGet(lastHealthy, resp.mp)
            THEN OkResp(resp) ELSE UnhealthyResp(resp)

\* C3 witness: a per-mount request answered 200 while another configured
\* mount point is unhealthy.
C3_Witness ==
    /\ resp.handler = "mount"
    /\ resp.mp \in Configured
    /\ resp.status = 200
    /\ \E other \in Configured : ~MapGet(lastHealthy, other)

\* C4: cancelling the context never lets a pass begin after the
\* cancellation: no CheckAll pass, the initial one and one for a pending tick
\* included, begins when the context is already cancelled.
C4_NoPassBeginsAfterCancel == ~passBeganCancelled

\* C5: once the context is cancelled, Start eventually returns (every mount
\* check in flight returning).
C5_CancelLeadsToReturn == cancelled ~> (pc = "done")

\* C5 witness: Start has returned although a pass was begun after the
\* cancellation.
C5_Witness == pc = "done" /\ cancelled /\ passBeganCancelled

\* C6: Start makes one full pass over the configured mount points, in order,
\* before the ticker exists and before its first select; each later pass is
\* begun by taking one tick from ticker.C and is full as well; and while the
\* context is not cancelled every buffered tick is taken and passes recur
\* forever.
C6_InitialPassThenOnePerTick ==
    /\ [](tickerOn \/ pc = "select" => firstPassDone)
    /\ [](pc = "select" => checked = mountPoints)
    /\ [](pc \in {"initial", "pass"} => checked = SubSeq(mountPoints, 1, idx - 1))
    /\ [][pc' = "pass" /\ pc # "pass" => pc = "select" /\ tickC' = tickC - 1]_vars
    /\ [][pc' = "initial" /\ pc # "initial" => pc = "new" /\ ~tickerOn]_vars
    /\ (tickC > 0) ~> (tickC = 0 \/ cancelled)
    /\ []<>(pc = "pass" \/ cancelled)

\* C6 witness: not cancelled, the initial pass done, a tick-triggered pass
\* over two mount points is at its second check.
C6_Witness ==
    /\ ~cancelled
    /\ firstPassDone
    /\ pc = "pass"
    /\ Len(mountPoints) = 2
    /\ idx = 2

\* C7: passes do not overlap and ticks are not queued: the checks made since
\* a pass began are that pass's own, at most one tick is pending, and no two
\* passes begin without a tick fired between them, so a pass that overran
\* several ticks is followed by one catch-up pass at most.
C7_NoOverlapNoQueuedTicks ==
    /\ tickC <= 1
    /\ passesSinceTick <= 1
    /\ pc \in {"initial", "pass"} => idx \in 1..Len(mountPoints) /\ Len(checked) = idx - 1
    /\ pc \in {"new", "select", "done"} => idx = 0

\* C7 witness: the latest tick was lost to a full ticker.C during an
\* overrunning pass, one catch-up pass has run since without a new tick, and
\* the loop now waits with nothing pending.
C7_Witness ==
    /\ dropped
    /\ pc = "select"
    /\ tickC = 0
    /\ passesSinceTick = 1

ProbePaths ==
    MountUniverse \cup {DecodeMountPoint(Slashes(k) \o t) : k \in 0..MaxSlashes, t \in Tails}

\* C9: IsMountHealthy of a path that was not given at construction returns
\* found = false, whatever was set for the configured paths, and the
\* per-mount endpoint answers 404 for it.
C9_UnconfiguredNotFound ==
    /\ \A p \in ProbePaths \ Configured : IsMountHealthy(p)[2] = FALSE
    /\ (resp.handler = "mount" /\ resp.mp # <<>> /\ resp.mp \notin Configured) =>
          resp.status = 404

\* C9 witness: a request for a mount point of another deployment, not
\* configured here, was answered 404 after a configured one was set healthy.
C9_Witness ==
    /\ resp.handler = "mount"
    /\ resp.mp \in MountUniverse \ Configured
    /\ resp.status = 404
    /\ \E mp \in Configured : MapGet(lastHealthy, mp)

\* the suffix of a per-mount request after the handler's prefix
RawOf(path) == TrimPrefix(path, healthPath \o <<"/">> \o mountPointsSubpath)

\* s without all of its leading slashes
RECURSIVE TrimLeftSlashes(_)
TrimLeftSlashes(s) ==
    IF s # <<>> /\ Head(s) = "/" THEN TrimLeftSlashes(Tail(s)) ELSE s

\* C10: the mount point HandleMountPoints queries has exactly one leading
\* slash, however many slashes the suffix after the sub-path began with: it
\* is "/" followed by the suffix without its leading slashes.
C10_ExactlyOneLeadingSlash ==
    (resp.handler = "mount" /\ resp.mp # <<>>) =>
        /\ LeadingSlashes(resp.mp) = 1
        /\ resp.mp = <<"/">> \o TrimLeftSlashes(RawOf(resp.path))

\* the prefix HandleMountPoints recognises
MountPrefix == healthPath \o <<"/">> \o mountPointsSubpath

\* C11: HandleMountPoints gives every request a defined status: 400 with
\* "mount point path required" for a request exactly at the prefix (empty
\* suffix), 404 for a path that does not begin with the prefix, 404 for a
\* suffix that decodes to a path the store does not hold, and never a status
\* other than 200, 503, 400, 404.
C11_DefinedStatusForEveryRequest ==
    resp.handler = "mount" =>
        /\ resp.status \in {200, 503, 400, 404}
        /\ ~HasPrefix(resp.path, MountPrefix) => resp.status = 404
        /\ resp.path = MountPrefix =>
              resp.status = 400 /\ resp.body = "mount point path required\n"
        /\ (/\ HasPrefix(resp.path, MountPrefix)
            /\ resp.path # MountPrefix
            /\ DecodeMountPoint(RawOf(resp.path)) \notin DOMAIN lastHealthy) =>
              resp.status = 404
        /\ resp.status \in {200, 503} =>
              DecodeMountPoint(RawOf(resp.path)) \in DOMAIN lastHealthy

\* C11 witness: a request exactly at the prefix was answered 400.
C11_Witness ==
    /\ resp.handler = "mount"
    /\ resp.path = MountPrefix
    /\ resp.status = 400

\* what a check found is one of the failure kinds: path missing, not a
\* directory, mount table unreadable, no matching NFS entry, write test failed
FailureFound ==
    \/ cfs.stat \in {"missing", "file"}
    \/ cfs.table \in {"unreadable", "other"}
    \/ cfs.write \in {"create fails", "remove fails"}

\* C12: every failure kind of a scheduled check ends in an error, by which the
\* mount point's record is set to false and its "error" counter goes up by
\* exactly one, and it never stops the scheduler: the pass goes on to the
\* remaining mount points, a pass that ended has checked them all, and Start
\* has returned only if the context was cancelled.
C12_FailureRecordedSchedulerContinues ==
    /\ cpc = "metrics" => (cerr # "nil" <=> FailureFound)
    /\ \A mp \in MountUniverse :
          checksTotal[<<mp, "error">>] =
             errorsSeen[mp]
               - (IF cpc = "metrics" /\ cerr # "nil" /\ mp = Current THEN 1 ELSE 0)
    /\ (cpc = "idle" /\ checked # <<>>) =>
          /\ Len(outcomes) = Len(checked)
          /\ lastHealthy[checked[Len(checked)]] = outcomes[Len(checked)]
    /\ (cpc = "idle" /\ pc \in {"initial", "pass"}) =>
          /\ idx \in 1..Len(mountPoints)
          /\ checked = SubSeq(mountPoints, 1, idx - 1)
    /\ (pc = "select" /\ passesDone > 0) => checked = mountPoints
    /\ pc = "done" => cancelled

\* the first mount point failed in both passes, and the second pass goes on to
\* the second mount point
C12_Witness ==
    /\ pc = "pass"
    /\ cpc = "stat"
    /\ idx = 2
    /\ outcomes = <<FALSE>>
    /\ checksTotal[<<mountPoints[1], "error">>] = 2
    /\ ~lastHealthy[mountPoints[1]]

\* C13: checkMounted on a path that is a directory but has no matching NFS
\* entry in the mount table fails with "is not an NFS mount", a kind distinct
\* from the one reported when the mount table cannot be read.
C13_NoEntryIsNfsMismatch ==
    (cpc = "metrics" /\ cfs.stat = "dir" /\ cfs.table = "other") =>
        /\ cerr = "is not an NFS mount"
        /\ cerr # checkMounted([cfs EXCEPT !.table = "unreadable"])

\* checkMounted has returned and its check is not over yet
Returned == cpc \in {"metrics", "lock", "write"}

\* the operations of a check that runs every step, in the order of the claim
StepOrder == <<"stat", "table", "create", "remove">>

\* C14: the steps of one check run in the order existence check, mount-table
\* check, optional write test (create, then remove), stopping at the first
\* failure: a check of a path that is missing or not a directory returns an
\* error having read neither the mount table nor attempted the write test, and
\* a check that fails at the mount table never attempts the write test; the
\* write test is attempted only if enabled.
C14_StepsInOrderShortCircuit ==
    /\ Len(ops) <= Len(StepOrder)
    /\ ops = SubSeq(StepOrder, 1, Len(ops))
    /\ "table" \in Range(ops) => cfs.stat = "dir"
    /\ "create" \in Range(ops) =>
          enableWriteTest /\ cfs.stat = "dir" /\ cfs.table = "nfs"
    /\ (Returned /\ cfs.stat \in {"missing", "file"}) =>
          cerr # "nil" /\ ops = <<"stat">>
    /\ (Returned /\ cfs.table \in {"unreadable", "other"}) =>
          cerr # "nil" /\ ops = <<"stat", "table">>

\* with the write test enabled, a check of a missing path has returned
C14_Witness ==
    /\ cpc = "metrics"
    /\ enableWriteTest
    /\ cfs.stat = "missing"
    /\ cerr = "stat failed"
    /\ ops = <<"stat">>

\* the URL path of the per-mount endpoint of mount point mp
UrlOf(mp) == MountPrefix \o Tail(mp)

\* no pass is in progress: passesDone passes are complete
BetweenPasses == cpc = "idle" /\ pc \in {"new", "select", "done"}

\* C15: after k complete passes, for every configured mount point the "ok" and
\* "error" counters add up to k, its record is the outcome of its check in the
\* k-th pass, and the aggregate is healthy iff every check of the k-th pass
\* succeeded; with a first mount point passing and a second one absent, after
\* one pass the main endpoint answers 503, the first mount's 200, the second
\* mount's 503, and the counters are ok = 1 for the first, error = 1 for the
\* second.
C15_CountersAndRecordsAfterKPasses ==
    BetweenPasses =>
        /\ \A mp \in Configured :
              checksTotal[<<mp, "ok">>] + checksTotal[<<mp, "error">>] = passesDone
        /\ passesDone > 0 =>
              /\ \A i \in 1..Len(mountPoints) : lastHealthy[mountPoints[i]] = outcomes[i]
              /\ IsHealthy <=> \A i \in 1..Len(mountPoints) : outcomes[i]
        /\ (passesDone = 1 /\ Len(mountPoints) = 2 /\ outcomes = <<TRUE, FALSE>>) =>
              /\ UnhealthyResp(MainResponse(healthPath))
              /\ OkResp(MountResponse(UrlOf(mountPoints[1])))
              /\ UnhealthyResp(MountResponse(UrlOf(mountPoints[2])))
              /\ checksTotal[<<mountPoints[1], "ok">>] = 1
              /\ checksTotal[<<mountPoints[2], "error">>] = 1

\* a write test is under way: writeTest has been called and has not returned
InWriteTest == cpc \in {"create", "remove"}

\* the histogram exists iff the write test is enabled, and holds as many
\* observations per mount point as write tests have finished on it
ObservationsMatchAttempts ==
    /\ histExists <=> enableWriteTest
    /\ ~enableWriteTest => \A mp \in MountUniverse : histObs[mp] = 0
    /\ \A mp \in MountUniverse :
          histObs[mp] = writeAttempts[mp]
                          - (IF InWriteTest /\ mp = Current THEN 1 ELSE 0)

\* C16: the write-test duration histogram exists iff the write test was
\* enabled at construction; it holds one observation per finished write-test
\* attempt: a check that returns from its write test, failed at the create
\* step, failed at the delete step or passed, adds exactly one observation
\* for its mount point, and a check that returns before the write test adds
\* none.
C16_HistogramOnePerAttempt ==
    /\ []ObservationsMatchAttempts
    /\ [][(InWriteTest /\ cpc' = "metrics") => histObs' = Bump(histObs, Current)]_vars
    /\ [][(cpc \in {"stat", "table"} /\ cpc' = "metrics") => histObs' = histObs]_vars

\* a write test that failed at its create step has been observed
C16_Witness ==
    /\ cpc = "metrics"
    /\ cfs.write = "create fails"
    /\ histExists
    /\ histObs[Current] = 1
    /\ writeAttempts[Current] = 1

\* IsHealthy's answer on the store st: the AND of the records of mountPoints
AllHealthyIn(st) == \A i \in 1..Len(mountPoints) : MapGet(st, mountPoints[i])

\* C17: for every interleaving of setHealthy calls with IsHealthy and
\* IsMountHealthy calls no read and write access the map at the same time (the
\* writer holds mu alone, a reader is counted in mu while it reads, and the
\* store stays what it was when the reader took mu), and each read returns the
\* value the store had at one instant of the call, the one at which it took mu:
\* IsHealthy the AND of all records as they stood together then, IsMountHealthy
\* the record and its presence then.
C17_ReadsAreSnapshots ==
    /\ ~(mu.writer /\ mu.readers > 0)
    /\ mu.writer <=> setPc = "write"
    /\ mu.readers = (IF mainPc = "loop" THEN 1 ELSE 0)
                      + (IF mountPc = "read" THEN 1 ELSE 0)
    /\ mainPc = "loop" => lastHealthy = mainSnap
    /\ mountPc = "read" => lastHealthy = mountSnap
    /\ mainRet # <<>> => mainRet = <<AllHealthyIn(mainSnap)>>
    /\ mountRet # <<>> =>
          mountRet = <<MapGet(mountSnap, mountArg), mountArg \in DOMAIN mountSnap>>

\* IsHealthy has returned true on two mount points, a later write has made one
\* of them unhealthy, and an IsMountHealthy call holds mu
C17_Witness ==
    /\ Len(mountPoints) = 2
    /\ mainSnap = [mp \in Range(mountPoints) |-> TRUE]
    /\ \E mp \in Range(mountPoints) : ~lastHealthy[mp]
    /\ mainRet = <<TRUE>>
    /\ mountPc = "read"

\* C18: with the write test enabled, a check that passed (writeTest returned
\* nil) leaves the mount point's directory as it was before the check: the
\* probe file its test created (present while the test waits to remove it)
\* has been removed.
C18_PassedCheckLeavesNoProbeFile ==
    /\ cpc = "remove" => probeFiles[Current] = filesBefore + 1
    /\ (Returned /\ enableWriteTest /\ cerr = "nil") =>
          /\ ops = StepOrder
          /\ probeFiles[Current] = filesBefore

\* a check with the write test has passed
C18_Witness ==
    /\ cpc = "metrics"
    /\ enableWriteTest
    /\ cerr = "nil"
    /\ cfs.write = "ok"
    /\ "remove" \in Range(ops)

\* the scheduler is inside one of a check's file-system operations
InIO == cpc \in {"stat", "table", "create", "remove"}

\* C19: no lock is held across an I/O step: while the scheduler executes the
\* stat, the mount-table read or the write test's file operations, it does not
\* hold the store's mutex (and takes no read lock at all); the write lock is
\* held only at the map assignment of setHealthy; so a read of the store by an
\* HTTP handler can take mu whenever a file-system operation is in flight.
C19_NoLockAcrossIO ==
    /\ InIO => ~mu.writer
    /\ mu.writer <=> cpc = "write"
    /\ mu.readers = 0
    /\ InIO => (ENABLED MainRLock /\ ENABLED MountRLock)

\* the write test's file creation is in flight and mu is free
C19_Witness ==
    /\ cpc = "create"
    /\ passesDone = 1
    /\ ~mu.writer

\* C20: when cancellation is signalled while a pass is in progress, Start
\* finishes at most the one check that is in flight and starts no check of the
\* remaining mount points of that pass: once a check of a pass has ended with
\* the context cancelled during that pass, no further check of it is under way.
C20_CancelStopsPassAfterInFlightCheck ==
    ~(checkDoneCancelled /\ cpc # "idle")

\* C21: a mount point's record changes only as the closing step of a check of
\* that same mount point: no step adds or deletes a record, a step that changes
\* the record of mp is the end of a check of mp (so the check of one mount
\* point leaves every other record as it was, and a record keeps the value of
\* its last completed check, a failure included, until the next one), and the
\* steps of HandleMain and HandleMountPoints leave the whole store as it was.
C21_RecordChangesOnlyByOwnCheck ==
    [][/\ DOMAIN lastHealthy' = DOMAIN lastHealthy
       /\ \A mp \in DOMAIN lastHealthy :
             lastHealthy'[mp] # lastHealthy[mp] =>
                 /\ pc \in {"initial", "pass"}
                 /\ mp = mountPoints[idx]
                 /\ checked' = Append(checked, mp)
                 /\ lastHealthy'[mp] = lastSet'[mp]
       /\ resp' # NoResp => lastHealthy' = lastHealthy]_vars

\* between two passes one mount point's record is true and the other's false,
\* and a request to the per-mount endpoint has just been answered
C21_Witness ==
    /\ pc = "select"
    /\ Len(mountPoints) = 2
    /\ lastHealthy[mountPoints[1]]
    /\ ~lastHealthy[mountPoints[2]]
    /\ resp.handler = "mount"
    /\ resp.status = 503

\* the gauge value CheckMountPoint sets for a record
GaugeOf(healthy) == IF healthy THEN 1 ELSE 0

\* mount point mp has been checked at least once
CheckedOnce(mp) == checksTotal[<<mp, "ok">>] + checksTotal[<<mp, "error">>] > 0

\* C22: in every state in which no CheckMountPoint call is in progress, for
\* every mount point checked at least once the mount_healthy gauge (1 or 0)
\* equals the mount's record in the store and the outcome of its most recent
\* check; inside CheckMountPoint, once the counter and the gauge are updated
\* and until setHealthy has written, the gauge already holds the new outcome
\* (and every other mount point's gauge still equals its record).
C22_GaugeEqualsRecordOutsideChecks ==
    /\ cpc = "idle" =>
          \A mp \in Configured :
              CheckedOnce(mp) =>
                  /\ mountHealthyGauge[mp] = GaugeOf(lastHealthy[mp])
                  /\ mountHealthyGauge[mp] = GaugeOf(lastSet[mp])
    /\ cpc \in {"lock", "write"} =>
          /\ mountHealthyGauge[Current] = GaugeOf(cerr = "nil")
          /\ \A mp \in Configured \ {Current} :
                CheckedOnce(mp) => mountHealthyGauge[mp] = GaugeOf(lastHealthy[mp])
    /\ \A mp \in MountUniverse :
          (mountHealthyGauge[mp] = -1) <=> ~CheckedOnce(mp)

\* between two passes, a mount point that passed its first check has failed
\* its second: gauge 0, record false
C22_Witness ==
    /\ cpc = "idle"
    /\ pc = "select"
    /\ passesDone = 2
    /\ checksTotal[<<mountPoints[1], "ok">>] = 1
    /\ checksTotal[<<mountPoints[1], "error">>] = 1
    /\ mountHealthyGauge[mountPoints[1]] = 0
    /\ ~lastHealthy[mountPoints[1]]

====
